---- MODULE Spec2Model ----
(***************************************************************************)
(* Model of lcdPi/lcd-hd44780-i2c/hd44780i2c.c: the HD44780 LCD driver     *)
(* that reaches the display through an MCP23017 port expander.             *)
(*                                                                         *)
(* Two specifications share the expander output register:                  *)
(*   Spec            a single caller invoking the driver's functions one   *)
(*                   call at a time; every call is one action and leaves   *)
(*                   the events it produced in `trace`.                    *)
(*   SpecPresenters  the displayTicker and displayCalendar threads, which  *)
(*                   share the display under the mutex displayBusy and     *)
(*                   advance one expander event at a time.                 *)
(*   SpecRotate      rotateString applied to buffers of a bounded length.  *)
(*   SpecWriteString the loop of hd44780WriteString, one character at a    *)
(*                   time, on texts of up to 257 characters.               *)
(***************************************************************************)
EXTENDS Integers, Sequences, FiniteSets, TLC

VARIABLES
    pins,       \* struct hd44780i2c: masks rs, en, db[0..3] (fixed after Init)
    reg,        \* the MCP23017 output register the display hangs on
    call,       \* the driver function last called, its arguments, reg before it
    ret,        \* the value that call returned
    trace,      \* the events of that call, in order
    everInit,   \* history: initialiseDisplay has been called and has returned
    pc,         \* presenter threads: position of each thread in its code
    queue,      \* presenter threads: events of the current burst still to do
    owner,      \* displayBusy: the thread holding it, or NoThread
    bursts,     \* presenter threads: bursts started so far by each thread
    xtrace,     \* history: the burst of each expander write, repeats merged
    ticker,     \* struct tickerStruct: text, length, padding, increment, row
    buffer,     \* presenter threads: the local char buffer[] of each thread
    frame,      \* displayCalendar's animation frame
    given,      \* history: the tickerStruct displayTicker was started on
    fault,      \* history: the undefined operations rotateString ran into
    rot,        \* rotateString on its own: the buffer, k and the results
    ws          \* hd44780WriteString's loop on its own: text, i, bytes sent

vars == << pins, reg, call, ret, trace, everInit,
           pc, queue, owner, bursts, xtrace, ticker, buffer, frame, given,
           fault, rot, ws >>

drvVars == << call, ret, trace, everInit >>
thrVars ==
    << pc, queue, owner, bursts, xtrace, ticker, buffer, frame, given,
       fault >>
\* History of the presenters that only displayTicker's start and its
\* rotation add to.
histVars == << given, fault >>
\* The variables of the functions run by themselves.
pureVars == << rot, ws >>

-----------------------------------------------------------------------------
(* Bounds of the model. *)

\* The expander write of a hd44780WriteByte call that may be refused is one of
\* its first MaxFailAt (or none).
MaxFailAt == 2
\* Bursts each presenter thread performs before the model stops following it.
MaxBursts == 2
\* Longest buffer rotateString is tried on by itself.
MaxRotLen == 4
\* Bytes beyond the text's length after which the model stops following
\* hd44780WriteString's loop.
MaxOverrun == 2
\* Bytes behind the ticker's window buffer that the model lets strlen run
\* into.
MaxOverread == 2

-----------------------------------------------------------------------------
(* 8-bit arithmetic. *)

Pow2(i) == 2 ^ i

Bit(x, i) == (x \div Pow2(i)) % 2

\* Bit of weight w (1, 2, 4, 8) of x.
BitW(x, w) == (x \div w) % 2

Or1(a, b, w) == IF BitW(a, w) = 1 \/ BitW(b, w) = 1 THEN w ELSE 0
AndNot1(a, b, w) == IF BitW(a, w) = 1 /\ BitW(b, w) = 0 THEN w ELSE 0

\* a | b and a & ~b on four bits, tabulated.
Or4Bits ==
    [a \in 0..15 |-> [b \in 0..15 |->
        Or1(a, b, 1) + Or1(a, b, 2) + Or1(a, b, 4) + Or1(a, b, 8)]]
AndNot4Bits ==
    [a \in 0..15 |-> [b \in 0..15 |->
        AndNot1(a, b, 1) + AndNot1(a, b, 2) + AndNot1(a, b, 4)
        + AndNot1(a, b, 8)]]

\* a | b on uint8_t
BitOr(a, b) ==
    16 * Or4Bits[a \div 16][b \div 16] + Or4Bits[a % 16][b % 16]

\* a & ~b on uint8_t
BitAndNot(a, b) ==
    16 * AndNot4Bits[a \div 16][b \div 16] + AndNot4Bits[a % 16][b % 16]

\* a & b on uint8_t
BitAnd(a, b) == BitAndNot(a, BitAndNot(a, b))

U8(x) == x % 256

-----------------------------------------------------------------------------
(* Constants of hd44780i2c.h. *)

MODE_COMMAND == 0
MODE_DATA == 1
BITS_NIBBLE == 4

DISPLAY_COLUMNS == 20
DISPLAY_ROWS == 4
DISPLAY_ROWS_MAX == 4

ADDRESS_ROW_0 == 0
ADDRESS_ROW_1 == 64
ADDRESS_ROW_2 == 20
ADDRESS_ROW_3 == 84

DISPLAY_CLEAR == 1
DISPLAY_HOME == 2
ENTRY_BASE == 4
ENTRY_COUNTER == 2
ENTRY_SHIFT == 1
DISPLAY_BASE == 8
DISPLAY_ON == 4
DISPLAY_CURSOR == 2
DISPLAY_BLINK == 1
MOVE_BASE == 16
MOVE_DISPLAY == 8
MOVE_DIRECTION == 4
FUNCTION_BASE == 32
FUNCTION_DATA == 16
FUNCTION_LINES == 8
FUNCTION_FONT == 4
ADDRESS_CGRAM == 64
ADDRESS_DDRAM == 128

\* The pin assignments the model is run with: each gives six distinct
\* expander bits, as masks (the driver multiplies and ORs them).
PinMaps ==
    { [rs |-> 16, en |-> 32, db |-> [i \in 0..3 |-> Pow2(i)]],
      [rs |-> 1,  en |-> 4,  db |-> [i \in 0..3 |-> Pow2(7 - i)]] }

\* The bits of the register that carry RS and DB4..DB7.
SignalMask(p) ==
    BitOr(p.rs, BitOr(BitOr(p.db[0], p.db[1]), BitOr(p.db[2], p.db[3])))

-----------------------------------------------------------------------------
(* Events.  k: "set" (mcp23017SetBitsByte), "clr" (mcp23017UnsetBitsByte),  *)
(* "wr" (mcp23017WriteByte), "usleep" (v microseconds), "byte" (entry of    *)
(* hd44780WriteByte with payload v in mode m).                              *)

Ev(k, v, m) == [k |-> k, v |-> v, m |-> m]

IsWrite(e) == e.k \in {"set", "clr", "wr"}

\* mcp23017SetBitsByte / mcp23017UnsetBitsByte / mcp23017WriteByte on the
\* output register: set the bits of the mask, clear them, replace the byte.
ExpanderApply(r, e) ==
    CASE e.k = "set" -> BitOr(r, e.v)
      [] e.k = "clr" -> BitAndNot(r, e.v)
      [] e.k = "wr"  -> U8(e.v)
      [] OTHER       -> r

\* The calls of one driver function: the value it returns and its events.
Res(r, ops) == [ret |-> r, ops |-> ops]

-----------------------------------------------------------------------------
(* HD44780 display functions. *)

\* Sets EN, waits 5 ms, clears EN, waits 5 ms.
hd44780ToggleEnable(p) ==
    << Ev("set", p.en, 0), Ev("usleep", 5000, 0),
       Ev("clr", p.en, 0), Ev("usleep", 5000, 0) >>

\* The loop "for i < BITS_NIBBLE: byte |= display->db[i] * ((nib < i) & 0x1)".
RECURSIVE AddGpioBits(_, _, _, _)
AddGpioBits(p, byte, nib, i) ==
    IF i >= BITS_NIBBLE THEN byte
    ELSE AddGpioBits(p,
                     BitOr(byte, U8(p.db[i] * (IF nib < i THEN 1 ELSE 0))),
                     nib, i + 1)

\* The byte hd44780WriteByte constructs for one nibble.
NibbleByte(p, nib, mode) == AddGpioBits(p, U8(p.rs * mode), nib, 0)

HiNibble(data) == (data \div Pow2(BITS_NIBBLE)) % 16
LoNibble(data) == data % 16

\* hd44780WriteByte with the two nibbles sent in the wrong order.
hd44780WriteByteLowFirst(p, data, mode) ==
    Res(0,
        << Ev("byte", data, mode),
           Ev("set", NibbleByte(p, LoNibble(data), mode), 0) >>
        \o hd44780ToggleEnable(p)
        \o << Ev("set", NibbleByte(p, HiNibble(data), mode), 0) >>
        \o hd44780ToggleEnable(p))

\* Writes a command or data byte (according to mode): always returns 0.
hd44780WriteByte(p, data, mode) ==
    Res(0,
        << Ev("byte", data, mode),
           Ev("set", NibbleByte(p, HiNibble(data), mode), 0) >>
        \o hd44780ToggleEnable(p)
        \o << Ev("set", NibbleByte(p, LoNibble(data), mode), 0) >>
        \o hd44780ToggleEnable(p))

\* The events of a sequence of calls, one after the other.
RECURSIVE Flatten(_, _, _)
Flatten(ss, lo, hi) ==
    IF lo > hi THEN << >>
    ELSE IF lo = hi THEN ss[lo]
    ELSE LET mid == (lo + hi) \div 2
         IN Flatten(ss, lo, mid) \o Flatten(ss, mid + 1, hi)

\* Writes a data string byte by byte (one hd44780WriteByte in MODE_DATA
\* for each index below strlen) and returns 0: the function as a whole for
\* a string of at most 255 characters, which its uint8_t counter can count
\* (the callers of the model pass no longer ones); WriteStringStep follows
\* the loop itself.
hd44780WriteString(p, string) ==
    Res(0,
        Flatten([i \in 1..Len(string) |->
                    hd44780WriteByte(p, U8(string[i]), MODE_DATA).ops],
                1, Len(string)))

\* Array of row start addresses.
RowAddress ==
    << ADDRESS_ROW_0, ADDRESS_ROW_1, ADDRESS_ROW_2, ADDRESS_ROW_3 >>

\* hd44780Goto sending the bare address, without ADDRESS_DDRAM.
hd44780GotoNoSelect(p, row, pos) ==
    IF pos < 0 \/ pos > DISPLAY_COLUMNS - 1 THEN Res(-1, << >>)
    ELSE IF row < 0 \/ row > DISPLAY_ROWS - 1 THEN Res(-1, << >>)
    ELSE Res(0,
             hd44780WriteByte(p, U8(RowAddress[row + 1] + pos),
                              MODE_COMMAND).ops)

\* hd44780Goto with the position check off by one.
hd44780GotoOffByOne(p, row, pos) ==
    IF pos < 0 \/ pos > DISPLAY_COLUMNS THEN Res(-1, << >>)
    ELSE IF row < 0 \/ row > DISPLAY_ROWS - 1 THEN Res(-1, << >>)
    ELSE Res(0,
             hd44780WriteByte(p,
                 U8(BitOr(ADDRESS_DDRAM, RowAddress[row + 1]) + pos),
                 MODE_COMMAND).ops)

\* Moves cursor to row, position; row and pos are uint8_t.
hd44780Goto(p, row, pos) ==
    IF pos < 0 \/ pos > DISPLAY_COLUMNS - 1 THEN Res(-1, << >>)
    ELSE IF row < 0 \/ row > DISPLAY_ROWS - 1 THEN Res(-1, << >>)
    ELSE Res(0,
             hd44780WriteByte(p,
                 U8(BitOr(ADDRESS_DDRAM, RowAddress[row + 1]) + pos),
                 MODE_COMMAND).ops)

-----------------------------------------------------------------------------
(* Display init and mode functions. *)

displayClear(p) ==
    Res(0, hd44780WriteByte(p, DISPLAY_CLEAR, MODE_COMMAND).ops
           \o << Ev("usleep", 1600, 0) >>)

displayHome(p) ==
    Res(0, hd44780WriteByte(p, DISPLAY_HOME, MODE_COMMAND).ops
           \o << Ev("usleep", 1600, 0) >>)

\* A bring-up step sent as a two-nibble command byte, high nibble first.
InitPulseTwoNibbles(p, value, wait) ==
    hd44780WriteByte(p, value, MODE_COMMAND).ops
    \o << Ev("usleep", wait, 0) >>

\* One of the four bring-up steps: a byte write of the raw value, an EN
\* toggle, the wait that follows.
InitPulse(p, value, wait) ==
    << Ev("wr", value, 0) >> \o hd44780ToggleEnable(p)
    \o << Ev("usleep", wait, 0) >>

\* Or of three bytes.
Or3(a, b, c) == BitOr(a, BitOr(b, c))
Or4(a, b, c, d) == BitOr(a, Or3(b, c, d))

\* initialiseDisplay with the entry mode sent before the display is switched
\* off.
initialiseDisplayEntryFirst(p, o) ==
    Res(0,
        << Ev("usleep", 42000, 0) >>
        \o InitPulse(p, 3, 4200)
        \o InitPulse(p, 3, 150)
        \o InitPulse(p, 3, 150)
        \o InitPulse(p, 2, 50)
        \o hd44780WriteByte(p,
               Or4(FUNCTION_BASE, o.data * FUNCTION_DATA,
                   o.lines * FUNCTION_LINES, o.font * FUNCTION_FONT),
               MODE_COMMAND).ops
        \o hd44780WriteByte(p,
               Or3(ENTRY_BASE, o.counter * ENTRY_COUNTER,
                   o.shift * ENTRY_SHIFT),
               MODE_COMMAND).ops
        \o hd44780WriteByte(p, DISPLAY_BASE, MODE_COMMAND).ops
        \o hd44780WriteByte(p,
               Or4(DISPLAY_BASE, o.display * DISPLAY_ON,
                   o.cursor * DISPLAY_CURSOR, o.blink * DISPLAY_BLINK),
               MODE_COMMAND).ops
        \o hd44780WriteByte(p,
               Or3(MOVE_BASE, o.mode * MOVE_DISPLAY,
                   o.direction * MOVE_DIRECTION),
               MODE_COMMAND).ops
        \o hd44780WriteByte(p, ADDRESS_DDRAM, MODE_COMMAND).ops
        \o displayClear(p).ops)

\* Initialises display; o holds the ten bool arguments as 0 or 1.
initialiseDisplay(p, o) ==
    Res(0,
        << Ev("usleep", 42000, 0) >>
        \o InitPulse(p, 3, 4200)
        \o InitPulse(p, 3, 150)
        \o InitPulse(p, 3, 150)
        \o InitPulse(p, 2, 50)
        \o hd44780WriteByte(p,
               Or4(FUNCTION_BASE, o.data * FUNCTION_DATA,
                   o.lines * FUNCTION_LINES, o.font * FUNCTION_FONT),
               MODE_COMMAND).ops
        \o hd44780WriteByte(p, DISPLAY_BASE, MODE_COMMAND).ops
        \o hd44780WriteByte(p,
               Or3(ENTRY_BASE, o.counter * ENTRY_COUNTER,
                   o.shift * ENTRY_SHIFT),
               MODE_COMMAND).ops
        \o hd44780WriteByte(p,
               Or4(DISPLAY_BASE, o.display * DISPLAY_ON,
                   o.cursor * DISPLAY_CURSOR, o.blink * DISPLAY_BLINK),
               MODE_COMMAND).ops
        \o hd44780WriteByte(p,
               Or3(MOVE_BASE, o.mode * MOVE_DISPLAY,
                   o.direction * MOVE_DIRECTION),
               MODE_COMMAND).ops
        \o hd44780WriteByte(p, ADDRESS_DDRAM, MODE_COMMAND).ops
        \o displayClear(p).ops)

-----------------------------------------------------------------------------
(* Hardware mode settings. *)

\* setEntryMode without the clear that follows the mode command.
setEntryModeNoClear(p, counter, shift) ==
    Res(0,
        hd44780WriteByte(p,
            Or3(ENTRY_BASE, counter * ENTRY_COUNTER, shift * ENTRY_SHIFT),
            MODE_COMMAND).ops)

setEntryMode(p, counter, shift) ==
    Res(0,
        hd44780WriteByte(p,
            Or3(ENTRY_BASE, counter * ENTRY_COUNTER, shift * ENTRY_SHIFT),
            MODE_COMMAND).ops
        \o hd44780WriteByte(p, DISPLAY_CLEAR, MODE_COMMAND).ops)

setDisplayMode(p, display, cursor, blink) ==
    Res(0,
        hd44780WriteByte(p,
            Or4(DISPLAY_BASE, display * DISPLAY_ON, cursor * DISPLAY_CURSOR,
                blink * DISPLAY_BLINK),
            MODE_COMMAND).ops
        \o hd44780WriteByte(p, DISPLAY_CLEAR, MODE_COMMAND).ops)

setMoveMode(p, mode, direction) ==
    Res(0,
        hd44780WriteByte(p,
            Or3(MOVE_BASE, mode * MOVE_DISPLAY, direction * MOVE_DIRECTION),
            MODE_COMMAND).ops
        \o hd44780WriteByte(p, DISPLAY_CLEAR, MODE_COMMAND).ops)

-----------------------------------------------------------------------------
(* Custom characters. *)

CUSTOM_CHARS == 7
CUSTOM_SIZE == 8

pacMan ==
    << << 0, 0, 14, 27, 31, 31, 14, 0 >>,
       << 0, 0, 15, 22, 28, 30, 15, 0 >>,
       << 0, 14, 25, 29, 31, 31, 21, 0 >>,
       << 0, 14, 19, 23, 31, 31, 27, 0 >>,
       << 0, 10, 31, 31, 31, 14, 4, 0 >>,
       << 0, 0, 10, 14, 14, 4, 0, 0 >>,
       << 0, 0, 30, 13, 7, 15, 30, 0 >> >>

\* The nested loop of loadCustom is flattened: n = i * CUSTOM_SIZE + j.
loadCustom(p, newChar) ==
    Res(0,
        hd44780WriteByte(p, ADDRESS_CGRAM, MODE_COMMAND).ops
        \o Flatten([n \in 1..(CUSTOM_CHARS * CUSTOM_SIZE) |->
                       hd44780WriteByte(p,
                           newChar[((n - 1) \div CUSTOM_SIZE) + 1]
                                  [((n - 1) % CUSTOM_SIZE) + 1],
                           MODE_DATA).ops],
                   1, CUSTOM_CHARS * CUSTOM_SIZE)
        \o hd44780WriteByte(p, ADDRESS_DDRAM, MODE_COMMAND).ops)

-----------------------------------------------------------------------------
(* Running a list of events against the expander. *)

\* The events as they happened: each with whether the expander accepted it
\* (ok) and the output register after it (r).  The failAt-th expander write
\* of the list is refused and leaves the register as it was; the driver
\* never reads the expander functions' return values, so the rest of the
\* list is carried out all the same.
Done(e, ok, r) == [k |-> e.k, v |-> e.v, m |-> e.m, ok |-> ok, r |-> r]

\* Events lo..hi of ops, from register r with n expander writes done.
RECURSIVE RunRange(_, _, _, _, _, _)
RunRange(ops, lo, hi, r, n, failAt) ==
    IF lo > hi THEN [tr |-> << >>, r |-> r, n |-> n]
    ELSE IF lo = hi
    THEN LET e  == ops[lo]
             n2 == IF IsWrite(e) THEN n + 1 ELSE n
             ok == ~(IsWrite(e) /\ n2 = failAt)
             r2 == IF ok THEN ExpanderApply(r, e) ELSE r
         IN [tr |-> << Done(e, ok, r2) >>, r |-> r2, n |-> n2]
    ELSE LET mid   == (lo + hi) \div 2
             left  == RunRange(ops, lo, mid, r, n, failAt)
             right == RunRange(ops, mid + 1, hi, left.r, left.n, failAt)
         IN [tr |-> left.tr \o right.tr, r |-> right.r, n |-> right.n]

-----------------------------------------------------------------------------
(* Views of the events of a call. *)

NotSleep(e) == e.k # "usleep"
IsByte(e) == e.k = "byte"

\* The expander writes of a call, in order.
Writes(tr) == SelectSeq(tr, IsWrite)
\* The expander writes and the command/data bytes of a call, in order.
Steps(tr) == SelectSeq(tr, NotSleep)
\* The command/data bytes of a call, as << payload, mode >>, in order.
SentBytes(tr) ==
    LET b == SelectSeq(tr, IsByte)
    IN [i \in 1..Len(b) |-> << b[i].v, b[i].m >>]

Is(e, k, v) == e.k = k /\ e.v = v

-----------------------------------------------------------------------------
(* The single caller: the arguments the driver's functions are called with. *)

\* Payload bytes: 0x00, 0x01, 0x28, 0x41, 0x80, 0xFF.
Bytes == {0, 1, 40, 65, 128, 255}
Modes == {MODE_COMMAND, MODE_DATA}
\* Strings, as the bytes before the terminating NUL.
Strings == { << >>, << 65 >>, << 72, 105 >> }
\* uint8_t row and position arguments, in and out of the display's range.
Rows == {0, 1, 2, 3, 4}
Cols == {0, 3, 19, 20}
Flags == {0, 1}

NoOpts ==
    [data |-> 0, lines |-> 0, font |-> 0, display |-> 0, cursor |-> 0,
     blink |-> 0, counter |-> 0, shift |-> 0, mode |-> 0, direction |-> 0]

\* The option sets initialiseDisplay is called with.
Options ==
    { NoOpts,
      [data |-> 0, lines |-> 1, font |-> 0, display |-> 1, cursor |-> 0,
       blink |-> 0, counter |-> 1, shift |-> 0, mode |-> 0, direction |-> 1],
      [data |-> 1, lines |-> 1, font |-> 1, display |-> 1, cursor |-> 1,
       blink |-> 1, counter |-> 1, shift |-> 1, mode |-> 1, direction |-> 1] }

NoThread == "none"
Threads == {"ticker", "calendar"}

NoCall ==
    [op |-> "none", a |-> << >>, s |-> << >>, o |-> NoOpts,
     reg0 |-> 0, failAt |-> 0, inited |-> FALSE]

\* A driver that remembers it has been initialised and makes a second
\* initialiseDisplay call a no-op.
InvokeOnceOnly(op, a, s, o, res, f) ==
    \E done \in { IF everInit /\ op = "initialiseDisplay"
                   THEN Res(0, << >>) ELSE res } :
    \E out \in { RunRange(done.ops, 1, Len(done.ops), reg, 0, f) } :
        /\ trace' = out.tr
        /\ reg' = out.r
        /\ ret' = done.ret
        /\ call' = [op |-> op, a |-> a, s |-> s, o |-> o,
                    reg0 |-> reg, failAt |-> f, inited |-> everInit]
        /\ everInit' = (everInit \/ op = "initialiseDisplay")
        /\ UNCHANGED << pins, pureVars, thrVars >>

\* One call of a driver function by the single caller: its events are run
\* against the expander, the f-th expander write of the call (none when
\* f = 0) being refused.
Invoke(op, a, s, o, res, f) ==
    \E done \in { res } :
    \E out \in { RunRange(done.ops, 1, Len(done.ops), reg, 0, f) } :
        /\ trace' = out.tr
        /\ reg' = out.r
        /\ ret' = done.ret
        /\ call' = [op |-> op, a |-> a, s |-> s, o |-> o,
                    reg0 |-> reg, failAt |-> f, inited |-> everInit]
        /\ everInit' = (everInit \/ op = "initialiseDisplay")
        /\ UNCHANGED << pins, pureVars, thrVars >>

CallWriteByte ==
    \E d \in Bytes, m \in Modes, f \in 0..MaxFailAt :
        Invoke("hd44780WriteByte", << d, m >>, << >>, NoOpts,
               hd44780WriteByte(pins, d, m), f)

CallWriteString ==
    \E str \in Strings :
        Invoke("hd44780WriteString", << >>, str, NoOpts,
               hd44780WriteString(pins, str), 0)

CallGoto ==
    \E row \in Rows, pos \in Cols :
        Invoke("hd44780Goto", << row, pos >>, << >>, NoOpts,
               hd44780Goto(pins, row, pos), 0)

CallDisplayClear ==
    Invoke("displayClear", << >>, << >>, NoOpts, displayClear(pins), 0)

CallDisplayHome ==
    Invoke("displayHome", << >>, << >>, NoOpts, displayHome(pins), 0)

CallInitialiseDisplay ==
    \E o \in Options :
        Invoke("initialiseDisplay", << >>, << >>, o,
               initialiseDisplay(pins, o), 0)

CallSetEntryMode ==
    \E c \in Flags, sh \in Flags :
        Invoke("setEntryMode", << c, sh >>, << >>, NoOpts,
               setEntryMode(pins, c, sh), 0)

CallSetDisplayMode ==
    \E d \in Flags, c \in Flags, b \in Flags :
        Invoke("setDisplayMode", << d, c, b >>, << >>, NoOpts,
               setDisplayMode(pins, d, c, b), 0)

CallSetMoveMode ==
    \E m \in Flags, d \in Flags :
        Invoke("setMoveMode", << m, d >>, << >>, NoOpts,
               setMoveMode(pins, m, d), 0)

CallLoadCustom ==
    Invoke("loadCustom", << >>, << >>, NoOpts, loadCustom(pins, pacMan), 0)

-----------------------------------------------------------------------------
(* Display functions: the ticker and the calendar. *)

TEXT_MAX_LENGTH == 512

\* Reverses buffer between start and end (C indices, end exclusive).
RECURSIVE reverseString(_, _, _)
reverseString(buf, start, end) ==
    IF start < end
    THEN reverseString([buf EXCEPT ![start + 1] = buf[end],
                                   ![end] = buf[start + 1]],
                       start + 1, end - 1)
    ELSE buf

\* rotateString reversing the whole buffer first: a rotation to the right.
rotateStringRight(buf, length, increments) ==
    LET k == increments % length
    IN reverseString(reverseString(reverseString(buf, 0, length), 0, k),
                     k, length)

\* Rotates buffer by increments: three reversals.
rotateString(buf, length, increments) ==
    LET k == increments % length
    IN reverseString(reverseString(reverseString(buf, 0, k), k, length),
                     0, length)

Spaces(n) == [i \in 1..n |-> 32]

\* strncpy( buffer, ticker->text, DISPLAY_COLUMNS ): the characters the
\* buffer then holds, up to its end or to the first NUL.
TextWindow(txt) ==
    IF Len(txt) <= DISPLAY_COLUMNS THEN txt ELSE SubSeq(txt, 1, DISPLAY_COLUMNS)

\* A byte of the stack that is not NUL.
StackByte == 255

\* What strlen finds behind char buffer[DISPLAY_COLUMNS] when strncpy has
\* left no NUL in it (a text of DISPLAY_COLUMNS characters or more fills
\* it): the bytes of the stack that follow the buffer, up to the first NUL.
\* Reading them is undefined; any number of them may be there.
Overread(txt) ==
    IF Len(txt) >= DISPLAY_COLUMNS
    THEN { [i \in 1..n |-> StackByte] : n \in 0..MaxOverread }
    ELSE { << >> }

\* The tickers the model is run with.
TickerConfigs ==
    { [text |-> << 72, 105 >>, length |-> 2, padding |-> 1,
       increment |-> 1, row |-> 0],
      [text |-> << 65 >>, length |-> 1, padding |-> 0,
       increment |-> 1, row |-> 2],
      [text |-> << 66 >>, length |-> 1, padding |-> TEXT_MAX_LENGTH,
       increment |-> 1, row |-> 3],
      [text |-> << >>, length |-> 0, padding |-> 0,
       increment |-> 1, row |-> 0],
      [text |-> [i \in 1..(DISPLAY_COLUMNS - 2) |-> 96 + i], length |->
       DISPLAY_COLUMNS - 2, padding |-> 2, increment |-> 3, row |-> 1] }

\* The ticker before displayTicker is started.
NoTicker ==
    [text |-> << >>, length |-> 0, padding |-> 0, increment |-> 0, row |-> 0]

\* struct Calendar: where the date/time string goes.
calendar == [row |-> 1, col |-> 3]

\* What time() returns, as far as the formatted string depends on it.
Times == {0, 1}

\* strftime with calendar->format[f]: the two frames differ in the separator.
FormatTime(f, now) == << 48 + now, IF f = 0 THEN 58 ELSE 32 >>

\* The goto + write string pair of a presenter: the return value of the goto
\* is not looked at.
BurstOps(p, row, col, string) ==
    hd44780Goto(p, row, col).ops \o hd44780WriteString(p, string).ops

\* The burst an expander write belongs to, added to the history unless the
\* write before it belongs to the same burst.
Noted(xt, id) ==
    IF xt # << >> /\ xt[Len(xt)] = id THEN xt ELSE Append(xt, id)

\* The text after the padding loop: the first length characters, padding
\* spaces and the terminating NUL (texts are kept as the characters before
\* the NUL; the tickers of the model have at least length characters).
PaddedText(arg) == SubSeq(arg.text, 1, arg.length) \o Spaces(arg.padding)

\* displayTicker up to its loop without the check of the text's size.
TickerStartNoCheck ==
    /\ pc["ticker"] = "start"
    /\ \E arg \in TickerConfigs :
          /\ given' = arg
          /\ ticker' = [arg EXCEPT !.text = PaddedText(arg),
                                   !.length = Len(PaddedText(arg))]
          /\ pc' = [pc EXCEPT !["ticker"] = "copy"]
    /\ UNCHANGED << pins, pureVars, fault, reg, drvVars, queue, owner,
                    bursts, xtrace, buffer, frame >>

\* displayTicker up to its loop, started on one of the tickers: gives up if
\* the text is too big, else pads it and takes its strlen as the length.
TickerStart ==
    /\ pc["ticker"] = "start"
    /\ \E arg \in TickerConfigs :
          /\ given' = arg
          /\ IF arg.length + arg.padding > TEXT_MAX_LENGTH
             THEN /\ pc' = [pc EXCEPT !["ticker"] = "exited"]
                  /\ ticker' = arg
             ELSE /\ ticker' = [arg EXCEPT !.text = PaddedText(arg),
                                           !.length = Len(PaddedText(arg))]
                  /\ pc' = [pc EXCEPT !["ticker"] = "copy"]
    /\ UNCHANGED << pins, pureVars, fault, reg, drvVars, queue, owner,
                    bursts, xtrace, buffer, frame >>

\* Head of the ticker's loop: copy the display text.  buffer is kept as the
\* string the write that follows sees in it.
TickerCopy ==
    /\ pc["ticker"] = "copy"
    /\ bursts["ticker"] < MaxBursts
    /\ \E tail \in Overread(ticker.text) :
          buffer' = [buffer EXCEPT
                       !["ticker"] = TextWindow(ticker.text) \o tail]
    /\ pc' = [pc EXCEPT !["ticker"] = "lock"]
    /\ UNCHANGED << pins, pureVars, histVars, reg, drvVars, queue, owner,
                    bursts, xtrace, ticker, frame >>

\* displayCalendar up to its loop.
CalendarStart ==
    /\ pc["calendar"] = "start"
    /\ frame' = 0
    /\ buffer' = [buffer EXCEPT !["calendar"] = << >>]
    /\ pc' = [pc EXCEPT !["calendar"] = "format"]
    /\ UNCHANGED << pins, pureVars, histVars, reg, drvVars, queue, owner,
                    bursts, xtrace, ticker >>

\* Head of the calendar's loop: format the current time with this frame's
\* format and go to the next frame.
CalendarFormat ==
    /\ pc["calendar"] = "format"
    /\ bursts["calendar"] < MaxBursts
    /\ \E now \in Times :
          LET f == IF frame > 1 THEN 0 ELSE frame
          IN /\ buffer' = [buffer EXCEPT !["calendar"] = FormatTime(f, now)]
             /\ frame' = f + 1
    /\ pc' = [pc EXCEPT !["calendar"] = "lock"]
    /\ UNCHANGED << pins, pureVars, histVars, reg, drvVars, queue, owner,
                    bursts, xtrace, ticker >>

\* Where a presenter's burst goes.
BurstRow(t) == IF t = "ticker" THEN ticker.row ELSE calendar.row
BurstCol(t) == IF t = "ticker" THEN 0 ELSE calendar.col

\* The goto + write string pair started without waiting for displayBusy.
DisplayLockNoWait(t) ==
    /\ pc[t] = "lock"
    /\ owner' = t
    /\ bursts' = [bursts EXCEPT ![t] = bursts[t] + 1]
    /\ queue' = [queue EXCEPT
                   ![t] = BurstOps(pins, BurstRow(t), BurstCol(t), buffer[t])]
    /\ pc' = [pc EXCEPT ![t] = "burst"]
    /\ UNCHANGED << pins, pureVars, histVars, reg, drvVars, xtrace, ticker,
                    buffer, frame >>

\* pthread_mutex_lock( &displayBusy ): blocks while the mutex is held; the
\* goto + write string pair follows.
DisplayLock(t) ==
    /\ pc[t] = "lock"
    /\ owner = NoThread
    /\ owner' = t
    /\ bursts' = [bursts EXCEPT ![t] = bursts[t] + 1]
    /\ queue' = [queue EXCEPT
                   ![t] = BurstOps(pins, BurstRow(t), BurstCol(t), buffer[t])]
    /\ pc' = [pc EXCEPT ![t] = "burst"]
    /\ UNCHANGED << pins, pureVars, histVars, reg, drvVars, xtrace, ticker,
                    buffer, frame >>

\* The next event of the goto + write string pair.
BurstStep(t) ==
    /\ pc[t] = "burst"
    /\ queue[t] # << >>
    /\ LET e == Head(queue[t])
       IN /\ reg' = ExpanderApply(reg, e)
          /\ xtrace' = IF IsWrite(e) THEN Noted(xtrace, << t, bursts[t] >>)
                       ELSE xtrace
    /\ queue' = [queue EXCEPT ![t] = Tail(queue[t])]
    /\ UNCHANGED << pins, pureVars, histVars, drvVars, pc, owner, bursts,
                    ticker, buffer, frame >>

\* pthread_mutex_unlock( &displayBusy ) after the pair.
DisplayUnlock(t) ==
    /\ pc[t] = "burst"
    /\ queue[t] = << >>
    /\ owner' = IF owner = t THEN NoThread ELSE owner
    /\ pc' = [pc EXCEPT ![t] = "sleep"]
    /\ UNCHANGED << pins, pureVars, histVars, reg, drvVars, queue, bursts,
                    xtrace, ticker, buffer, frame >>

\* The delay of a presenter has passed.
Sleep(t) ==
    /\ pc[t] = "sleep"
    /\ pc' = [pc EXCEPT ![t] = IF t = "ticker" THEN "rotate" ELSE "format"]
    /\ UNCHANGED << pins, pureVars, histVars, reg, drvVars, queue, owner,
                    bursts, xtrace, ticker, buffer, frame >>

\* The indices reverseString( buffer, start, end ) reads and writes.
Touched(start, end) == IF start < end THEN start..(end - 1) ELSE {}

\* The indices rotateString touches when its remainder is k.
RotateTouches(length, k) ==
    Touched(0, k) \cup Touched(k, length) \cup Touched(0, length)

\* What is wrong with touching these indices of a text of this length.
RangeFaults(touched, length) ==
    IF touched \subseteq 0..(length - 1) THEN {} ELSE { "index out of range" }

\* The text after the three reversals, for the remainder k.  Beyond the
\* text's NUL (length 0, k > 0) the reversal of one byte changes nothing and
\* that of more brings bytes that follow the NUL to the front.
RotatedText(text, length, k) ==
    IF length > 0 THEN { rotateString(text, length, k) }
    ELSE IF k <= 1 THEN { text }
    ELSE { text, << StackByte >> }

\* rotateString( ticker->text, ticker->length, increments ) in the ticker's
\* loop.  With length 0 the remainder increments %= length is undefined: it
\* traps (SIGFPE ends the process, both threads with it), or it leaves some
\* value, 0 or increments itself (a quotient of 0), for the reversals to
\* work with.
TickerRotateBy(increments) ==
    /\ pc["ticker"] = "rotate"
    /\ IF ticker.length = 0
       THEN \/ /\ pc' = [t \in Threads |-> "killed"]
               /\ fault' = fault \cup { "remainder by zero" }
               /\ UNCHANGED ticker
            \/ \E k \in { 0, increments } :
               \E text \in RotatedText(ticker.text, 0, k) :
                  /\ ticker' = [ticker EXCEPT !.text = text]
                  /\ fault' = fault \cup { "remainder by zero" }
                                    \cup RangeFaults(RotateTouches(0, k), 0)
                  /\ pc' = [pc EXCEPT !["ticker"] = "copy"]
       ELSE LET k == increments % ticker.length
            IN /\ ticker' = [ticker EXCEPT
                               !.text = rotateString(ticker.text,
                                                     ticker.length,
                                                     increments)]
               /\ fault' = fault \cup RangeFaults(
                                          RotateTouches(ticker.length, k),
                                          ticker.length)
               /\ pc' = [pc EXCEPT !["ticker"] = "copy"]
    /\ UNCHANGED << pins, pureVars, given, reg, drvVars, queue, owner,
                    bursts, xtrace, buffer, frame >>

\* The ticker text rotated by twice the increment.
TickerRotateTwice == TickerRotateBy(2 * ticker.increment)

\* Rotate the ticker text.
TickerRotate == TickerRotateBy(ticker.increment)

\* A presenter is at a cancellation point: in one of the waits of its burst
\* (usleep) or in the delay between two bursts (nanosleep, sleep).
AtCancellationPoint(t) ==
    \/ pc[t] = "sleep"
    \/ pc[t] = "burst" /\ queue[t] # << >> /\ Head(queue[t]).k = "usleep"

\* pthread_cancel of a presenter, acted on at a cancellation point: the
\* thread ends there.  The presenters install no cleanup handler, so a
\* mutex the thread holds stays locked.
Cancel(t) ==
    /\ AtCancellationPoint(t)
    /\ pc' = [pc EXCEPT ![t] = "cancelled"]
    /\ UNCHANGED << pins, pureVars, histVars, reg, drvVars, queue, owner,
                    bursts, xtrace, ticker, buffer, frame >>

-----------------------------------------------------------------------------

\* rotateString has not been tried by itself.
NoRot == [buf |-> << >>, k |-> 0, step |-> 0, once |-> << >>, twice |-> << >>]

\* The characters of the buffers rotateString is tried on.
RotChars == {65, 66, 67}

\* The buffers (of 1 to MaxRotLen characters) and increments (up to the
\* length, so that increments %= length is exercised) it is tried on.
RotInputs ==
    { [buf |-> b, k |-> k, step |-> 0, once |-> << >>, twice |-> << >>] :
        << b, k >> \in
            UNION { [1..n -> RotChars] \X (0..n) : n \in 1..MaxRotLen } }

\* Everything but rot, as it is after construction.
InitDisplay ==
    /\ pins \in PinMaps
    /\ reg = 0
    /\ call = NoCall
    /\ ret = 0
    /\ trace = << >>
    /\ everInit = FALSE
    /\ pc = [t \in Threads |-> "start"]
    /\ queue = [t \in Threads |-> << >>]
    /\ owner = NoThread
    /\ bursts = [t \in Threads |-> 0]
    /\ xtrace = << >>
    /\ ticker = NoTicker
    /\ given = NoTicker
    /\ fault = {}
    /\ buffer = [t \in Threads |-> << >>]
    /\ frame = 0

\* hd44780WriteString has not been entered by itself.
NoWs == [text |-> << >>, i |-> 0, out |-> << >>, returned |-> FALSE]

\* Lengths of the texts its loop is followed on: around the range of the
\* uint8_t counter.
WsLengths == {0, 1, 2, 255, 256, 257}

\* The text of n characters, none of them NUL: '!' to '}' over and over.
WsText(n) == [j \in 1..n |-> 33 + ((j - 1) % 93)]

Init == InitDisplay /\ rot = NoRot /\ ws = NoWs

\* rotateString( buffer, length, k ) on the buffer.
RotateOnce ==
    /\ rot.step = 0
    /\ rot.buf # << >>
    /\ rot' = [rot EXCEPT
                 !.once = rotateString(rot.buf, Len(rot.buf), rot.k),
                 !.step = 1]
    /\ UNCHANGED << pins, reg, drvVars, thrVars, ws >>

\* rotateString( buffer, length, length - k ) on the rotated buffer.
RotateBack ==
    /\ rot.step = 1
    /\ rot' = [rot EXCEPT
                 !.twice = rotateString(rot.once, Len(rot.once),
                                        Len(rot.once) - rot.k),
                 !.step = 2]
    /\ UNCHANGED << pins, reg, drvVars, thrVars, ws >>

\* One turn of the loop "for ( i = 0; i < strlen( string ); i++ )" with its
\* uint8_t counter: string[i] goes to hd44780WriteByte in MODE_DATA.
WriteStringStep ==
    /\ ~ws.returned
    /\ ws.i < Len(ws.text)
    /\ Len(ws.out) < Len(ws.text) + MaxOverrun
    /\ ws' = [ws EXCEPT
                !.out = ws.out \o SentBytes(
                            hd44780WriteByte(pins, U8(ws.text[ws.i + 1]),
                                             MODE_DATA).ops),
                !.i = U8(ws.i + 1)]
    /\ UNCHANGED << pins, reg, drvVars, thrVars, rot >>

\* The loop's condition is false: return 0.
WriteStringReturn ==
    /\ ~ws.returned
    /\ ~(ws.i < Len(ws.text))
    /\ ws' = [ws EXCEPT !.returned = TRUE]
    /\ UNCHANGED << pins, reg, drvVars, thrVars, rot >>

Next ==
    \/ CallWriteByte
    \/ CallWriteString
    \/ CallGoto
    \/ CallDisplayClear
    \/ CallDisplayHome
    \/ CallInitialiseDisplay
    \/ CallSetEntryMode
    \/ CallSetDisplayMode
    \/ CallSetMoveMode
    \/ CallLoadCustom

\* The driver's functions, called one at a time.
Spec == Init /\ [][Next]_vars

NextPresenters ==
    \/ TickerStart
    \/ TickerCopy
    \/ TickerRotate
    \/ CalendarStart
    \/ CalendarFormat
    \/ \E t \in Threads : DisplayLock(t)
    \/ \E t \in Threads : BurstStep(t)
    \/ \E t \in Threads : DisplayUnlock(t)
    \/ \E t \in Threads : Sleep(t)
    \/ \E t \in Threads : Cancel(t)

\* The ticker and the calendar threads on one display.
SpecPresenters == Init /\ [][NextPresenters]_vars

NextRotate == RotateOnce \/ RotateBack

\* rotateString by itself, on each of the buffers and increments.
InitRotate == InitDisplay /\ rot \in RotInputs /\ ws = NoWs

SpecRotate == InitRotate /\ [][NextRotate]_vars

NextWriteString == WriteStringStep \/ WriteStringReturn

\* hd44780WriteString by itself, on a text of each of the lengths.
InitWriteString ==
    /\ InitDisplay
    /\ rot = NoRot
    /\ ws \in { [NoWs EXCEPT !.text = WsText(n)] : n \in WsLengths }

SpecWriteString == InitWriteString /\ [][NextWriteString]_vars

-----------------------------------------------------------------------------
(* Views of the words of a call. *)

\* The word w carries nibble nib in mode: RS iff Data, DB4+i iff bit i.
WordEncodes(p, w, nib, mode) ==
    /\ (BitAnd(w, p.rs) # 0) <=> (mode = MODE_DATA)
    /\ \A i \in 0..3 : (BitAnd(w, p.db[i]) # 0) <=> (Bit(nib, i) = 1)

\* The value of the last data write (a "set" of something else than EN)
\* before event j of tr.
LastWord(p, tr, j) ==
    LET S == { i \in 1..(j - 1) : tr[i].k = "set" /\ tr[i].v # p.en }
        i == CHOOSE x \in S : \A y \in S : y <= x
    IN tr[i].v

-----------------------------------------------------------------------------
(* The claims. *)

\* C1: under concurrent execution of the ticker and the calendar, the
\* expander writes of two goto + write string bursts never interleave: every
\* write of one burst happens before the first write of the other.  (xtrace
\* lists the burst of each expander write with adjacent repeats merged, so
\* a burst that is interrupted by another shows up in it twice.)
C1_BurstsNeverInterleave ==
    \A i, j \in 1..Len(xtrace) : i # j => xtrace[i] # xtrace[j]

\* C1 witness: one presenter is inside its burst, having written, while the
\* other waits for displayBusy, and bursts of both are in the history.
C1_Witness ==
    \E t, u \in Threads :
        /\ t # u
        /\ pc[t] = "burst" /\ queue[t] # << >>
        /\ xtrace # << >> /\ xtrace[Len(xtrace)] = << t, bursts[t] >>
        /\ pc[u] = "lock"
        /\ \E i \in 1..Len(xtrace) : xtrace[i][1] = u

\* C2: for every payload byte and mode, the word hd44780WriteByte composes
\* for each nibble has RS set iff the mode is Data and the bit of db[i] set
\* iff bit i of the nibble is 1 (high nibble in the first data write, low
\* nibble in the second).
C2_NibbleWordEncodesNibble ==
    call.op = "hd44780WriteByte" =>
        LET w == Writes(trace)
        IN /\ WordEncodes(pins, w[1].v, HiNibble(call.a[1]), call.a[2])
           /\ WordEncodes(pins, w[4].v, LoNibble(call.a[1]), call.a[2])

\* C3: at every EN falling edge of a hd44780WriteByte call, whatever calls
\* came before, the RS and DB4..DB7 bits of the output register are exactly
\* the word composed for the current nibble (no expander write refused).
C3_FallingEdgeShowsCurrentWord ==
    (call.op = "hd44780WriteByte" /\ call.failAt = 0) =>
        \A j \in 1..Len(trace) :
            Is(trace[j], "clr", pins.en) =>
                BitAnd(trace[j].r, SignalMask(pins)) = LastWord(pins, trace, j)

\* C4: one hd44780WriteByte call makes exactly six expander writes: the
\* high nibble's word, EN set, EN cleared, the low nibble's word, EN set,
\* EN cleared, in this order.
C4_TwoWritesTwoPulses ==
    call.op = "hd44780WriteByte" =>
        LET w == Writes(trace)
            d == call.a[1]
            m == call.a[2]
        IN /\ Len(w) = 6
           /\ Is(w[1], "set", NibbleByte(pins, HiNibble(d), m))
           /\ Is(w[2], "set", pins.en)
           /\ Is(w[3], "clr", pins.en)
           /\ Is(w[4], "set", NibbleByte(pins, LoNibble(d), m))
           /\ Is(w[5], "set", pins.en)
           /\ Is(w[6], "clr", pins.en)

\* C4 witness: payload 0x01 (nibbles 0 and 1) has been written as data.
C4_Witness ==
    /\ call.op = "hd44780WriteByte"
    /\ call.a = << 1, MODE_DATA >>
    /\ Len(Writes(trace)) = 6

\* C5: cancelling a presenter at any point of its loop never leaves
\* displayBusy held by the cancelled thread.
C5_CancelReleasesLock ==
    \A t \in Threads : pc[t] = "cancelled" => owner # t

\* C6: for every row below DISPLAY_ROWS and column below DISPLAY_COLUMNS,
\* hd44780Goto sends exactly one byte, a command, equal to
\* 0x80 | (rowStart[row] + column) with rowStart = [0x00, 0x40, 0x14, 0x54].
C6_GotoSendsDdramAddress ==
    (/\ call.op = "hd44780Goto"
     /\ call.a[1] < DISPLAY_ROWS
     /\ call.a[2] < DISPLAY_COLUMNS) =>
        SentBytes(trace) =
            << << BitOr(128, << 0, 64, 20, 84 >>[call.a[1] + 1] + call.a[2]),
                  MODE_COMMAND >> >>

\* C6 witness: row 1, column 3 has sent the command byte 0xC3.
C6_Witness ==
    /\ call.op = "hd44780Goto"
    /\ call.a = << 1, 3 >>
    /\ SentBytes(trace) = << << 195, MODE_COMMAND >> >>

\* C7: for a row >= DISPLAY_ROWS or a column >= DISPLAY_COLUMNS, hd44780Goto
\* returns -1 and makes no expander write: the output register is unchanged.
C7_GotoOutOfRange ==
    (/\ call.op = "hd44780Goto"
     /\ (call.a[1] >= DISPLAY_ROWS \/ call.a[2] >= DISPLAY_COLUMNS)) =>
        /\ ret = -1
        /\ Writes(trace) = << >>
        /\ reg = call.reg0

\* C7 witness: a goto to column DISPLAY_COLUMNS of a valid row, and one to
\* row DISPLAY_ROWS, after earlier calls have set bits of the register.
C7_Witness ==
    /\ call.op = "hd44780Goto"
    /\ call.a \in { << 0, DISPLAY_COLUMNS >>, << DISPLAY_ROWS, 0 >> }
    /\ call.reg0 # 0
    /\ ret = -1

\* C8: every display command called before initialiseDisplay has returned
\* fails (returns an error) and makes no expander write.
C8_CommandsNeedInit ==
    (/\ call.op \in { "displayClear", "displayHome", "hd44780Goto",
                      "hd44780WriteString", "loadCustom", "setEntryMode",
                      "setDisplayMode", "setMoveMode" }
     /\ ~call.inited) =>
        /\ ret # 0
        /\ Writes(trace) = << >>

\* C9: if an expander write inside hd44780WriteByte fails, the call returns
\* an error and no later expander write of that byte is made.
C9_FailedWriteAborts ==
    (call.op = "hd44780WriteByte" /\ call.failAt > 0) =>
        /\ ret # 0
        /\ \A j \in 1..Len(trace) :
               ~trace[j].ok =>
                   \A k \in (j + 1)..Len(trace) : ~IsWrite(trace[k])

\* C10: initialiseDisplay begins with exactly four single-nibble pulses,
\* 0x3, 0x3, 0x3, 0x2, each one byte write of the value followed by one EN
\* toggle (EN set, EN cleared); the first two-nibble command byte comes
\* right after the fourth pulse and none before.
C10_FourBringUpPulses ==
    call.op = "initialiseDisplay" =>
        LET w == Steps(trace)
        IN /\ Len(w) >= 13
           /\ \A n \in 0..3 :
                 /\ Is(w[3 * n + 1], "wr", << 3, 3, 3, 2 >>[n + 1])
                 /\ Is(w[3 * n + 2], "set", pins.en)
                 /\ Is(w[3 * n + 3], "clr", pins.en)
           /\ w[13].k = "byte"

\* C10 witness: initialiseDisplay has run, for a two-line display.
C10_Witness ==
    /\ call.op = "initialiseDisplay"
    /\ call.o.lines = 1
    /\ Len(Steps(trace)) > 13

\* The display operations built on hd44780WriteByte, initialiseDisplay apart.
OtherOperations ==
    { "hd44780WriteString", "hd44780Goto", "displayClear", "displayHome",
      "setEntryMode", "setDisplayMode", "setMoveMode", "loadCustom" }

\* A function-set command: a command byte 001x xxxx.
IsFunctionSet(b) == b[2] = MODE_COMMAND /\ b[1] \div 32 = 1

\* C11: after the four bring-up pulses initialiseDisplay sends exactly seven
\* bytes, all commands, in this order: function-set (0x20 with data width,
\* line count and font), display off (0x08), entry mode, display mode, move
\* mode, DDRAM address reset (0x80), display clear (0x01); and no other
\* display operation ever sends a function-set command.
C11_InitCommandOrder ==
    /\ call.op = "initialiseDisplay" =>
          LET o == call.o
          IN SentBytes(trace) =
              << << 32 + 16 * o.data + 8 * o.lines + 4 * o.font,
                    MODE_COMMAND >>,
                 << 8, MODE_COMMAND >>,
                 << 4 + 2 * o.counter + o.shift, MODE_COMMAND >>,
                 << 8 + 4 * o.display + 2 * o.cursor + o.blink,
                    MODE_COMMAND >>,
                 << 16 + 8 * o.mode + 4 * o.direction, MODE_COMMAND >>,
                 << 128, MODE_COMMAND >>,
                 << 1, MODE_COMMAND >> >>
    /\ call.op \in OtherOperations =>
          \A i \in 1..Len(SentBytes(trace)) :
              ~IsFunctionSet(SentBytes(trace)[i])

\* C11 witness: initialiseDisplay has sent its commands for a 5x10 font,
\* 8-bit, two-line display (function-set 0x3C) after other operations.
C11_Witness ==
    /\ call.op = "initialiseDisplay"
    /\ call.reg0 # 0
    /\ SentBytes(trace)[1] = << 60, MODE_COMMAND >>
    /\ Len(SentBytes(trace)) = 7

\* What a call asked of the expander and the display, in order: its expander
\* writes and command/data bytes, without what the register then held.
Issued(tr) ==
    LET w == Steps(tr)
    IN [i \in 1..Len(w) |-> << w[i].k, w[i].v, w[i].m >>]

\* initialiseDisplay run on the register as it is after construction.
FirstRun(p, o) ==
    LET ops == initialiseDisplay(p, o).ops
    IN RunRange(ops, 1, Len(ops), 0, 0, 0).tr

\* C12: an initialiseDisplay call that follows another one with the same
\* options issues the same sequence of expander writes and command bytes as
\* that one; and every initialiseDisplay call, whatever the calls before it
\* left in the output register, issues the sequence that the first call on
\* the fresh register issues for these options.
C12_InitReplays ==
    /\ [](call.op = "initialiseDisplay" =>
             Issued(trace) = Issued(FirstRun(pins, call.o)))
    /\ [][(/\ call.op = "initialiseDisplay"
           /\ call'.op = "initialiseDisplay"
           /\ call'.o = call.o) => Issued(trace') = Issued(trace)]_vars

\* C12 witness: initialiseDisplay has run again, on a register that earlier
\* calls left with bits set and that differs from what this call leaves.
C12_Witness ==
    /\ call.op = "initialiseDisplay"
    /\ call.inited
    /\ call.reg0 # 0
    /\ call.reg0 # reg
    /\ Len(Issued(trace)) > 13

\* C13: rotateString is a cyclic left rotation: for a buffer of length
\* L >= 1 and 0 <= k < L, after rotating by k the character at index i is
\* the one that was at index (i + k) mod L, and rotating by k and then by
\* L - k gives the original buffer back.
C13_RotateIsCyclicLeft ==
    LET L == Len(rot.buf)
    IN (L >= 1 /\ rot.k < L) =>
          /\ rot.step >= 1 =>
                /\ Len(rot.once) = L
                /\ \A i \in 0..(L - 1) :
                       rot.once[i + 1] = rot.buf[((i + rot.k) % L) + 1]
          /\ rot.step = 2 => rot.twice = rot.buf

\* C13 witness: "ABC" has been rotated by 2 to "CAB" and then by 1.
C13_Witness ==
    /\ rot.buf = << 65, 66, 67 >>
    /\ rot.k = 2
    /\ rot.step = 2
    /\ rot.once = << 67, 65, 66 >>

\* The ticker's writes in the history of expander writes.
TickerWrote == \E i \in 1..Len(xtrace) : xtrace[i][1] = "ticker"

\* C14: a ticker started with length + padding above TEXT_MAX_LENGTH ends
\* at its start: its text is as it was given, it never holds displayBusy
\* and never writes to the expander; the calendar is not held up by it (it
\* is never kept waiting for displayBusy).
C14_OversizeTickerExits ==
    given.length + given.padding > TEXT_MAX_LENGTH =>
        /\ pc["ticker"] = "exited"
        /\ ticker = given
        /\ owner # "ticker"
        /\ bursts["ticker"] = 0
        /\ ~TickerWrote
        /\ pc["calendar"] = "lock" => ENABLED DisplayLock("calendar")

\* C14 witness: the oversize ticker has ended and the calendar has since
\* finished a burst and started another.
C14_Witness ==
    /\ given.length + given.padding > TEXT_MAX_LENGTH
    /\ pc["ticker"] = "exited"
    /\ bursts["calendar"] = 2
    /\ pc["calendar"] = "burst"

\* C15: setEntryMode, setDisplayMode and setMoveMode each send exactly two
\* bytes, both commands: the base opcode (0x04, 0x08, 0x10) with the bit of
\* each flag that is true and of no flag that is false, then DISPLAY_CLEAR.
C15_ModeThenClear ==
    LET a == call.a
        clear == << 1, MODE_COMMAND >>
    IN /\ call.op = "setEntryMode" =>
             SentBytes(trace) =
                 << << 4 + 2 * a[1] + a[2], MODE_COMMAND >>, clear >>
       /\ call.op = "setDisplayMode" =>
             SentBytes(trace) =
                 << << 8 + 4 * a[1] + 2 * a[2] + a[3], MODE_COMMAND >>,
                    clear >>
       /\ call.op = "setMoveMode" =>
             SentBytes(trace) =
                 << << 16 + 8 * a[1] + 4 * a[2], MODE_COMMAND >>, clear >>

\* C15 witness: each of the three has been called with some flags true and
\* some false: setDisplayMode( on, no cursor, blink ) sent 0x0D, 0x01.
C15_Witness ==
    \/ /\ call.op = "setDisplayMode"
       /\ call.a = << 1, 0, 1 >>
       /\ SentBytes(trace) = << << 13, MODE_COMMAND >>, << 1, MODE_COMMAND >> >>
    \/ /\ call.op = "setEntryMode"
       /\ call.a = << 1, 0 >>
       /\ SentBytes(trace) = << << 6, MODE_COMMAND >>, << 1, MODE_COMMAND >> >>

\* Event j of tr is a DISPLAY_CLEAR or DISPLAY_HOME command.
IsClearOrHome(e) ==
    /\ e.k = "byte"
    /\ e.m = MODE_COMMAND
    /\ e.v \in { DISPLAY_CLEAR, DISPLAY_HOME }

\* C16: every DISPLAY_CLEAR or DISPLAY_HOME command sent by displayClear,
\* displayHome, initialiseDisplay, setEntryMode, setDisplayMode or
\* setMoveMode is followed, before the function returns and before any
\* later byte, by the 1.6 ms settle wait.
C16_ClearIsSettled ==
    call.op \in { "displayClear", "displayHome", "initialiseDisplay",
                  "setEntryMode", "setDisplayMode", "setMoveMode" } =>
        \A j \in 1..Len(trace) :
            IsClearOrHome(trace[j]) =>
                \E k \in (j + 1)..Len(trace) :
                    /\ Is(trace[k], "usleep", 1600)
                    /\ \A i \in (j + 1)..(k - 1) : trace[i].k # "byte"

\* txt rotated to the left by k.
RotatedLeft(txt, k) ==
    [i \in 1..Len(txt) |-> txt[((i - 1 + k) % Len(txt)) + 1]]

\* The first n characters of txt (all of it if it is shorter).
Prefix(txt, n) == SubSeq(txt, 1, IF Len(txt) < n THEN Len(txt) ELSE n)

\* The period (0, 1, 2, ...) the ticker is in: bursts counts the acquired
\* locks.
Period ==
    IF pc["ticker"] \in { "copy", "lock" } THEN bursts["ticker"]
    ELSE bursts["ticker"] - 1

\* q is the rest of s.
IsRestOf(q, s) ==
    /\ Len(q) <= Len(s)
    /\ q = SubSeq(s, Len(s) - Len(q) + 1, Len(s))

\* C17: in every period the ticker acquires displayBusy, goes to
\* (row, 0), writes the window, releases displayBusy, sleeps and rotates, in
\* this order: it holds the lock throughout the goto and the write, which
\* send the DDRAM address of (row, 0) and then the window; it does not hold
\* it while it sleeps and rotates; and the window of period n is the start
\* (the first DISPLAY_COLUMNS characters at most) of the padded text rotated
\* left by (n * increment) mod L, the unrotated text in period 0.
C17_TickerPeriod ==
    LET t == "ticker"
        text0 == PaddedText(given)
        L == Len(text0)
    IN (pc[t] \in { "copy", "lock", "burst", "sleep", "rotate" } /\ L >= 1) =>
        /\ pc[t] = "burst" =>
              /\ owner = t
              /\ IsRestOf(SentBytes(queue[t]),
                          << << 128 + << 0, 64, 20, 84 >>[given.row + 1],
                                MODE_COMMAND >> >>
                          \o [i \in 1..Len(buffer[t]) |->
                                 << buffer[t][i], MODE_DATA >>])
        /\ pc[t] \in { "copy", "lock", "sleep", "rotate" } =>
              /\ owner # t
              /\ queue[t] = << >>
        /\ ticker.text =
              RotatedLeft(text0, (Period * given.increment) % L)
        /\ pc[t] # "copy" =>
              Prefix(buffer[t], DISPLAY_COLUMNS) =
                  Prefix(RotatedLeft(text0, (Period * given.increment) % L),
                         DISPLAY_COLUMNS)

\* C17 witness: in its second period the ticker of "Hi" and one space,
\* holding the lock, is writing the window "i H".
C17_Witness ==
    /\ given.text = << 72, 105 >>
    /\ bursts["ticker"] = 2
    /\ pc["ticker"] = "burst"
    /\ owner = "ticker"
    /\ buffer["ticker"] = << 105, 32, 72 >>
    /\ Len(SentBytes(queue["ticker"])) = 1

\* C18: for a text of any length n, n > 255 included, hd44780WriteString
\* sends exactly n bytes, all in Data mode, the i-th being the i-th
\* character of the text, and then returns: it never sends a byte beyond
\* the n-th, and when it has returned it has sent n.
C18_WriteStringSendsText ==
    /\ \A j \in 1..Len(ws.out) :
          /\ j <= Len(ws.text)
          /\ ws.out[j] = << ws.text[j], MODE_DATA >>
    /\ ws.returned => Len(ws.out) = Len(ws.text)

IsDataByte(e) == e.k = "byte" /\ e.m = MODE_DATA

\* C19: in every burst of the ticker at most DISPLAY_COLUMNS Data bytes are
\* written to the display, whatever the length of the padded text (the
\* bytes of a burst that are still to be written are never more).
C19_BurstWithinColumns ==
    pc["ticker"] = "burst" =>
        Len(SelectSeq(queue["ticker"], IsDataByte)) <= DISPLAY_COLUMNS

\* C20: for every ticker that passes the check of its size at the start,
\* the empty text without padding included, every rotation is well defined:
\* rotateString never takes a remainder by a zero length and only touches
\* indices in [0, length).
C20_RotationWellDefined ==
    given.length + given.padding <= TEXT_MAX_LENGTH => fault = {}

\* C21: for every valid pin assignment, at the EN falling edge of each of
\* the four bring-up pulses of initialiseDisplay the output register shows
\* the word the pin assignment gives for the pulse's nibble (0x3, 0x3, 0x3,
\* 0x2) as a command: the bit of db[i] set iff bit i of the nibble is 1, the
\* bit of RS clear.
C21_BringUpPulsesFollowPinMap ==
    call.op = "initialiseDisplay" =>
        LET w == Steps(trace)
        IN \A n \in 0..3 :
               /\ Is(w[3 * n + 3], "clr", pins.en)
               /\ WordEncodes(pins, w[3 * n + 3].r, << 3, 3, 3, 2 >>[n + 1],
                              MODE_COMMAND)

====
